---- MODULE Spec2Model ----
(***************************************************************************)
(* A model of src/app.py, the 100Balance BMS -> MQTT bridge.               *)
(*                                                                         *)
(* Five specifications share the module's variables:                       *)
(*   SpecCrc   compute_crc / validate_rtu_frame on bounded byte strings    *)
(*   SpecFind  find_frame on receive buffers assembled from segments       *)
(*   Spec      startup and poll cycles of main() over a wide set of        *)
(*             register maps, short horizon                                *)
(*   SpecLong  the same actions over few register maps, long horizon       *)
(*   SpecSave  save_state step by step, with crashes, and load_state       *)
(*                                                                         *)
(* Numbers.  Python floats are modelled by exact fixed-point integers:     *)
(*   voltage  in 0.1 V   (round(vraw * 0.1, 2)          = vraw / 10)       *)
(*   current  in 0.1 A   (round((craw - 30000) * 0.1, 2))                  *)
(*   capacity in 0.1 Ah  (round(rcraw * 0.1, 2))                           *)
(*   energy   in W*s     (1 kWh = 3 600 000 W*s)                           *)
(*   time     in ticks of 0.2 s (TicksPerSec ticks per second)             *)
(* round() is Python's round-half-to-even, int() truncates toward zero.    *)
(* An optional value (None in the source) is <<>>, a present one <<x>>.    *)
(***************************************************************************)
EXTENDS Integers, Sequences, FiniteSets, TLC

VARIABLES
    \* ---- SpecCrc: one checksum experiment
    data,            \* the byte string handed to compute_crc
    frame,           \* data + crc (lo, hi), possibly with one bit flipped
    verdict,         \* validate_rtu_frame(frame)
    crcPhase,        \* "data" -> "framed" -> "flipped"
    \* ---- SpecFind: one receive buffer
    buf,             \* bytes read from the serial line
    nSegs,           \* segments appended so far (bounds the buffer)
    found,           \* find_frame(buf, RESP_ADDR, RESP_FUNC): <<>> is None
    findPhase,       \* "recv" -> ("cut" ->) "searched"
    \* ---- main()
    pc,              \* "connect","discovery","load","open","loop","crashed","off"
    persist_state,   \* args.persist_state is a non-empty path
    persist_every,   \* args.persist_every_sec
    interval,        \* args.interval (s)
    clock,           \* time.time(), in ticks
    energy_in,       \* energy_in_kwh, in W*s
    energy_out,      \* energy_out_kwh, in W*s
    last_persist,    \* last_persist, in ticks
    fs,              \* the file system: path -> <<>> (absent) or <<content>>
    published,       \* the ha.publish calls of the current cycle, in order
    cyc,             \* what the last poll cycle did (observation)
    hist,            \* observations across cycles (saves, loads, last totals sent)
    \* ---- SpecSave: one save_state call in progress
    save_pc,         \* "idle","makedirs","opened","dumped","closed","crashed","loaded"
    save_args,       \* the totals the running save_state was called with
    save_old,        \* load_state(path) when the running save_state began
    loaded           \* what load_state returned after a crash

crcVars  == <<data, frame, verdict, crcPhase>>
findVars == <<buf, nSegs, found, findPhase>>
mainVars == <<pc, persist_state, persist_every, interval, clock, energy_in,
              energy_out, last_persist, published, cyc, hist>>
saveVars == <<save_pc, save_args, save_old, loaded>>
vars     == <<crcVars, findVars, mainVars, fs, saveVars>>

-----------------------------------------------------------------------------
(* Bytes and 16-bit words *)

Pow2(n) == 2 ^ n

\* f itself, built in full once instead of being re-evaluated at every use
Eager(f) == f @@ <<>>

\* F(v) for the one v in S: a local variable, evaluated once and then used
Bind(S, F(_)) == CHOOSE r \in { F(v) : v \in S } : TRUE

\* bit k of x
Bit(x, k) == (x \div Pow2(k)) % 2

\* x with bit k inverted
Toggle(x, k) == IF Bit(x, k) = 1 THEN x - Pow2(k) ELSE x + Pow2(k)

\* a ^ b on the low n bits (the operands are below 2^n or agree above it)
RECURSIVE XorBits(_, _, _)
XorBits(a, b, n) ==
    IF n = 0 THEN a
    ELSE Bind({IF Bit(b, n - 1) = 1 THEN Toggle(a, n - 1) ELSE a},
              LAMBDA a1 : XorBits(a1, b, n - 1))

\* (crc >> 1) ^ 0xA001 if (crc & 1) else (crc >> 1); 0xA001 = bits 15, 13, 0
CrcShift(crc) ==
    IF crc % 2 = 1
    THEN Toggle(Toggle(Toggle(crc \div 2, 15), 13), 0)
    ELSE crc \div 2

\* for _ in range(8): one shift step each
RECURSIVE CrcShifts(_, _)
CrcShifts(crc, n) ==
    IF n = 0 THEN crc
    ELSE Bind({CrcShift(crc)}, LAMBDA c1 : CrcShifts(c1, n - 1))

\* for b in data[lo..hi]: crc ^= b, then the eight shift steps.  The range
\* is folded by halves, left half first, which keeps the byte order of the
\* loop and the nesting of the evaluation shallow.
RECURSIVE CrcFold(_, _, _, _)
CrcFold(crc, bytes, lo, hi) ==
    IF lo > hi THEN crc
    ELSE IF lo = hi
    THEN Bind({XorBits(crc, bytes[lo], 8)}, LAMBDA c1 : CrcShifts(c1, 8))
    ELSE Bind({CrcFold(crc, bytes, lo, (lo + hi) \div 2)},
              LAMBDA c1 : CrcFold(c1, bytes, (lo + hi) \div 2 + 1, hi))

\* compute_crc: Modbus RTU CRC16, poly 0xA001, init 0xFFFF
compute_crc(bytes) ==
    Bind({bytes}, LAMBDA d : CrcFold(65535, d, 1, Len(d)) % 65536)

\* struct.pack("<H", crc)
PackLE16(w) == <<w % 256, w \div 256>>

\* validate_rtu_frame read with the checksum bytes in the wrong order
validate_rtu_frame_bigendian(f) ==
    IF Len(f) < 5 THEN FALSE
    ELSE LET d        == SubSeq(f, 1, Len(f) - 2)
             recv_crc == f[Len(f)] + f[Len(f) - 1] * 256
         IN  recv_crc = compute_crc(d)

\* validate_rtu_frame
validate_rtu_frame(f) ==
    IF Len(f) < 5 THEN FALSE
    ELSE LET d        == SubSeq(f, 1, Len(f) - 2)
             recv_crc == f[Len(f) - 1] + f[Len(f)] * 256
         IN  recv_crc = compute_crc(d)

\* bytes.find(needle) for a two-byte needle, 1-based; 0 when absent
RECURSIVE FindNeedle(_, _, _, _)
FindNeedle(b, x, y, i) ==
    IF i + 1 > Len(b) THEN 0
    ELSE IF b[i] = x /\ b[i + 1] = y THEN i
    ELSE FindNeedle(b, x, y, i + 1)

\* find_frame from a given search offset: <<>> is None, <<f>> a frame
FindFrameAt(b, idx) ==
    IF idx = 0 THEN <<>>
    ELSE IF Len(b) < (idx - 1) + 3 THEN <<>>
    ELSE LET byte_count == b[idx + 2]
             frame_len  == 3 + byte_count + 2
         IN  IF Len(b) < (idx - 1) + frame_len THEN <<>>
             ELSE LET f == SubSeq(b, idx, idx + frame_len - 1)
                  IN  IF ~validate_rtu_frame(f) THEN <<>> ELSE <<f>>

\* a find_frame that goes on to later occurrences of the marker
RECURSIVE FindFrameFrom(_, _, _, _)
FindFrameFrom(b, addr, func, from) ==
    LET idx == FindNeedle(b, addr, func, from)
    IN  IF idx = 0 THEN <<>>
        ELSE IF FindFrameAt(b, idx) # <<>> THEN FindFrameAt(b, idx)
        ELSE FindFrameFrom(b, addr, func, idx + 1)

find_frame_retrying(b, addr, func) == FindFrameFrom(b, addr, func, 1)

\* find_frame
find_frame(b, addr, func) == FindFrameAt(b, FindNeedle(b, addr, func, 1))

RESP_ADDR == 81
RESP_FUNC == 3

\* the response the device sends for a payload: header, count, payload, crc
Response(payload) ==
    Bind({<<RESP_ADDR, RESP_FUNC, Len(payload)>> \o payload},
         LAMBDA body : body \o PackLE16(compute_crc(body)))

-----------------------------------------------------------------------------
(* Energy totals persistence: load_state, save_state *)

\* args.persist_state when it is not empty: DEFAULT_STATE_PATH
STATE_PATH == "/var/lib/100balance-bms/state.json"

\* save_state writing in place: tmp is the destination itself
TmpPath_in_place(path) == path

\* tmp = path + ".tmp"
TmpPath(path) == path \o ".tmp"

Paths == {STATE_PATH, TmpPath(STATE_PATH)}

FsEmpty == [p \in Paths |-> <<>>]

\* the JSON document json.dump writes; complete = FALSE is a prefix of it
StateRecord(e_in, e_out, ts) ==
    [complete |-> TRUE, energy_in_kwh |-> e_in, energy_out_kwh |-> e_out, ts |-> ts]

Truncated == [complete |-> FALSE, energy_in_kwh |-> 0, energy_out_kwh |-> 0, ts |-> 0]

\* load_state: any failure to open or parse gives (0.0, 0.0)
load_state(fsv, path) ==
    IF fsv[path] = <<>> THEN <<0, 0>>
    ELSE IF ~fsv[path][1].complete THEN <<0, 0>>
    ELSE <<fsv[path][1].energy_in_kwh, fsv[path][1].energy_out_kwh>>

\* open(tmp, "w"): tmp exists and is empty
FsOpenW(fsv, path) == [fsv EXCEPT ![TmpPath(path)] = <<Truncated>>]

\* json.dump(...) and the close at the end of the with block: tmp is complete
FsDumpClose(fsv, path, rec) == [fsv EXCEPT ![TmpPath(path)] = <<rec>>]

\* os.replace(tmp, path): one atomic rename (onto itself: no change)
FsReplace(fsv, path) ==
    IF TmpPath(path) = path THEN fsv
    ELSE [fsv EXCEPT ![path] = fsv[TmpPath(path)], ![TmpPath(path)] = <<>>]

\* save_state run to the end
save_state(fsv, path, e_in, e_out, ts) ==
    FsReplace(FsDumpClose(FsOpenW(fsv, path), path, StateRecord(e_in, e_out, ts)), path)

\* the file system left behind by a save_state that raised at the given step
save_state_raised(fsv, path, step) ==
    CASE step = "makedirs" -> fsv
      [] step = "open"     -> fsv
      [] step = "dump"     -> FsOpenW(fsv, path)
      [] step = "replace"  -> FsDumpClose(FsOpenW(fsv, path), path, Truncated)

SaveSteps == {"makedirs", "open", "dump", "replace"}

-----------------------------------------------------------------------------
(* Numbers *)

Abs(x) == IF x < 0 THEN -x ELSE x

Max(x, y) == IF x >= y THEN x ELSE y

\* round(a / b) for b > 0: Python 3 rounds halves to the even neighbour
RoundHalfEven(a, b) ==
    LET q == a \div b
        r == a - q * b
    IN  IF 2 * r < b THEN q
        ELSE IF 2 * r > b THEN q + 1
        ELSE IF q % 2 = 0 THEN q ELSE q + 1

\* int(a / b) for b > 0: truncation toward zero
TruncDiv(a, b) == IF a >= 0 THEN a \div b ELSE -((-a) \div b)

-----------------------------------------------------------------------------
(* decode_registers_from_frame and the per-cycle derivation of main() *)

DEFAULT_RESERVE_AH == 15

\* ticks of 0.2 s, the shortest sleep of the loop
TicksPerSec == 5

\* decode_registers_from_frame: register index (1-based) -> uint16; an odd
\* payload makes struct.unpack raise on the last, one-byte slice
decode_registers_from_frame(f) ==
    LET byte_count == f[3]
        d == SubSeq(f, 4, 3 + byte_count)
    IN  IF Len(d) % 2 = 1 THEN [raised |-> TRUE, regs |-> <<>>]
        ELSE [raised |-> FALSE,
              regs |-> Eager([r \in 1..(Len(d) \div 2) |->
                                 d[2 * r - 1] * 256 + d[2 * r]])]

\* regs.get(r)
RegGet(regs, r) == IF r \in DOMAIN regs THEN <<regs[r]>> ELSE <<>>

\* u16_to_temp
u16_to_temp(val) == val - 40

Topic(name) == "100BalanceBMS/" \o name

\* lines 316-327: cell voltages, in mV
RECURSIVE CellPubs(_, _)
CellPubs(regs, i) ==
    IF i > 16 THEN <<>>
    ELSE (IF i \in DOMAIN regs /\ 2500 <= regs[i] /\ regs[i] <= 4500
          THEN << <<Topic("Cell" \o ToString(i) \o "Voltage"), regs[i]>> >>
          ELSE <<>>) \o CellPubs(regs, i + 1)

\* lines 330-336: temperatures 49..52
RECURSIVE TempPubs(_, _)
TempPubs(regs, reg) ==
    IF reg > 52 THEN <<>>
    ELSE (IF reg \in DOMAIN regs /\ -30 <= u16_to_temp(regs[reg])
                                 /\ u16_to_temp(regs[reg]) <= 120
          THEN << <<Topic("BatteryTemp" \o ToString(reg - 48)), u16_to_temp(regs[reg])>> >>
          ELSE <<>>) \o TempPubs(regs, reg + 1)

\* voltage = round(vraw * 0.1, 2), set whenever register 57 exists (0.1 V)
Voltage(regs) == RegGet(regs, 57)

\* current = round((craw - 30000) * 0.1, 2), set whenever register 58 exists (0.1 A)
Current(regs) == IF 58 \in DOMAIN regs THEN <<regs[58] - 30000>> ELSE <<>>

\* rem_capacity = round(rcraw * 0.1, 2), set whenever register 76 exists (0.1 Ah)
RemCapacity(regs) == RegGet(regs, 76)

\* 10 < voltage < 100
VoltageInWindow(v) == 100 < v /\ v < 1000

\* abs(current) < 500
CurrentInWindow(c) == Abs(c) < 5000

\* lines 338-383: the publishes of the directly scaled registers
ScaledPubs(regs) ==
    LET v   == Voltage(regs)
        c   == Current(regs)
        soc == RegGet(regs, 59)
        rc  == RemCapacity(regs)
        mos == RegGet(regs, 91)
        p89 == RegGet(regs, 89)
    IN  (IF v # <<>> /\ VoltageInWindow(v[1])
         THEN << <<Topic("BatteryVoltage"), v[1]>> >> ELSE <<>>)
     \o (IF c # <<>> /\ CurrentInWindow(c[1])
         THEN << <<Topic("Current"), c[1]>> >> ELSE <<>>)
     \o (IF soc # <<>> /\ 0 <= soc[1] /\ soc[1] <= 1000
         THEN << <<Topic("SOC"), soc[1]>> >> ELSE <<>>)
     \o (IF rc # <<>> /\ 0 < rc[1] /\ rc[1] < 20000
         THEN << <<Topic("RemainingCapacity"), rc[1]>> >> ELSE <<>>)
     \o (IF mos # <<>> /\ -30 <= u16_to_temp(mos[1]) /\ u16_to_temp(mos[1]) <= 150
         THEN << <<Topic("MosTemperature"), u16_to_temp(mos[1])>> >> ELSE <<>>)
     \o (IF p89 # <<>> /\ p89[1] < 10000
         THEN << <<Topic("PowerRawReg89"), p89[1]>> >> ELSE <<>>)

\* power = int(round(voltage * current)) if both are not None (W)
Power(regs) ==
    IF Voltage(regs) # <<>> /\ Current(regs) # <<>>
    THEN <<RoundHalfEven(Voltage(regs)[1] * Current(regs)[1], 100)>>
    ELSE <<>>

\* lines 390-399
PowerPubs(power) ==
    << <<Topic("Power"), power>>,
       <<Topic("Charging"), IF power > 30 THEN "ON" ELSE "OFF">>,
       <<Topic("Discharging"), IF power < -30 THEN "ON" ELSE "OFF">>,
       <<Topic("PowerIn"), Max(power, 0)>>,
       <<Topic("PowerOut"), Max(-power, 0)>> >>

\* the energy of one interval with the sign of the power kept
EnergyDelta_signed(power, itv) == power * itv

\* e_kwh = abs(power) / 1000.0 * (args.interval / 3600.0), in W*s
EnergyDelta(power, itv) == Abs(power) * itv

\* lines 404-407: the totals after the accounting of one cycle
Accumulate(e_in, e_out, power, itv) ==
    IF power > 0 THEN <<e_in + EnergyDelta(power, itv), e_out>>
    ELSE IF power < 0 THEN <<e_in, e_out + EnergyDelta(power, itv)>>
    ELSE <<e_in, e_out>>

\* round(energy_kwh, 6), in micro-kWh: W*s / 3.6
RoundKwh6(ws) == RoundHalfEven(ws * 5, 18)

\* lines 408-409
EnergyPubs(e_in, e_out) ==
    << <<Topic("EnergyIn"), RoundKwh6(e_in)>>,
       <<Topic("EnergyOut"), RoundKwh6(e_out)>> >>

\* time-to-go rounded to the nearest second
TimeToGo_rounded(rc, v, power, reserve_ah) ==
    RoundHalfEven(Max(rc - reserve_ah * 10, 0) * v * 36, Abs(power))

\* lines 414-416: usable_ah = max(rem_capacity - reserve_ah, 0.0);
\* usable_wh = usable_ah * voltage; int((usable_wh / abs(power)) * 3600)
TimeToGo(rc, v, power, reserve_ah) ==
    TruncDiv(Max(rc - reserve_ah * 10, 0) * v * 36, Abs(power))

\* line 413
TimeToGoDefined(regs) ==
    /\ RemCapacity(regs) # <<>> /\ Power(regs) # <<>> /\ Voltage(regs) # <<>>
    /\ Abs(Power(regs)[1]) > 10

\* lines 412-420
TimeToGoPubs(regs, reserve_ah) ==
    IF TimeToGoDefined(regs)
    THEN LET t == TimeToGo(RemCapacity(regs)[1], Voltage(regs)[1], Power(regs)[1],
                           reserve_ah)
         IN  << <<Topic("TimeToGo"), t>>,
                <<Topic("BatteryZeroTime"),
                  ToString(t \div 3600) \o "h " \o ToString((t % 3600) \div 60) \o "m">> >>
    ELSE <<>>

\* the publishes of a cycle up to the energy accounting (lines 316-399)
PubsBefore(regs) ==
    CellPubs(regs, 1) \o TempPubs(regs, 49) \o ScaledPubs(regs)
    \o (IF Power(regs) # <<>> THEN PowerPubs(Power(regs)[1]) ELSE <<>>)

\* what lines 313-399 and 411-420 make of a register map: the power, the
\* publishes before the energy accounting and the time-to-go publishes
Derived(regs, reserve_ah) ==
    [power  |-> Power(regs),
     before |-> PubsBefore(regs),
     ttg    |-> TimeToGoPubs(regs, reserve_ah)]

\* the totals after the accounting (lines 401-407), which runs iff power is set
TotalsAfter(power, e_in, e_out, itv) ==
    IF power # <<>> THEN Accumulate(e_in, e_out, power[1], itv)
    ELSE <<e_in, e_out>>

\* the publishes after the accounting (lines 408-420)
PubsAfter(drv, e_in, e_out, itv) ==
    (IF drv.power # <<>>
     THEN EnergyPubs(TotalsAfter(drv.power, e_in, e_out, itv)[1],
                     TotalsAfter(drv.power, e_in, e_out, itv)[2])
     ELSE <<>>)
    \o drv.ttg

\* the first publish of a topic in a sequence of publishes; 0 when absent
RECURSIVE FirstPub(_, _, _)
FirstPub(pubs, topic, i) ==
    IF i > Len(pubs) THEN 0
    ELSE IF pubs[i][1] = topic THEN i
    ELSE FirstPub(pubs, topic, i + 1)

HasPub(pubs, name) == FirstPub(pubs, Topic(name), 1) # 0

PubValue(pubs, name) == pubs[FirstPub(pubs, Topic(name), 1)][2]

\* now - last_persist >= 0: every cycle writes
PersistDue_always(now, lp, every) == now - lp >= 0

\* now - last_persist >= args.persist_every_sec (now, lp in ticks)
PersistDue(now, lp, every) == now - lp >= every * TicksPerSec

\* sleep_for = max(args.interval - elapsed, 0.2), in ticks
SleepFor(itv, elapsed) == Max(itv * TicksPerSec - elapsed, 1)

-----------------------------------------------------------------------------
(* The variable groups a specification does not use stay at these values *)

CrcIdle ==
    /\ data = <<>> /\ frame = <<>> /\ verdict = FALSE /\ crcPhase = "off"

FindIdle ==
    /\ buf = <<>> /\ nSegs = 0 /\ found = <<>> /\ findPhase = "off"

NoCycle ==
    [kind |-> "none", vraw |-> <<>>, craw |-> <<>>, rcraw |-> <<>>, power |-> <<>>,
     decoded |-> FALSE, accounted |-> FALSE, complete |-> FALSE, save |-> "none",
     t0 |-> 0, now |-> 0]

NoHist ==
    [last_save |-> <<>>, prev_save |-> <<>>, loads |-> 0, start |-> 0,
     sent_in |-> <<>>, sent_out |-> <<>>, pending |-> FALSE, crash |-> "none"]

MainIdle ==
    /\ pc = "off" /\ persist_state = FALSE /\ persist_every = 0 /\ interval = 0
    /\ clock = 0 /\ energy_in = 0 /\ energy_out = 0 /\ last_persist = 0
    /\ published = <<>> /\ cyc = NoCycle /\ hist = NoHist

SaveIdle ==
    /\ save_pc = "off" /\ save_args = <<>> /\ save_old = <<>> /\ loaded = <<>>

-----------------------------------------------------------------------------
(* SpecCrc: checksum, verify, flip one bit, verify *)

MaxDataLen == 4

ByteSamples == {0, 1, 3, 81, 255}

BoundedSeqs(S, n) == UNION {[1..k -> S] : k \in 0..n}

InitCrc ==
    /\ data \in BoundedSeqs(ByteSamples, MaxDataLen)
    /\ frame = <<>> /\ verdict = FALSE /\ crcPhase = "data"
    /\ FindIdle /\ MainIdle /\ SaveIdle /\ fs = FsEmpty

\* frame = data + struct.pack("<H", compute_crc(data)); validate_rtu_frame(frame)
AppendCrc ==
    /\ crcPhase = "data"
    /\ frame' = data \o PackLE16(compute_crc(data))
    /\ verdict' = validate_rtu_frame(frame')
    /\ crcPhase' = "framed"
    /\ UNCHANGED <<data, findVars, mainVars, fs, saveVars>>

\* one bit of the checksummed frame is inverted; validate_rtu_frame again
FlipBit(i, k) ==
    /\ crcPhase = "framed"
    /\ frame' = [frame EXCEPT ![i] = Toggle(@, k)]
    /\ verdict' = validate_rtu_frame(frame')
    /\ crcPhase' = "flipped"
    /\ UNCHANGED <<data, findVars, mainVars, fs, saveVars>>

NextCrc ==
    \/ AppendCrc
    \/ \E i \in 1..Len(frame), k \in 0..7 : FlipBit(i, k)

SpecCrc == InitCrc /\ [][NextCrc]_vars

\* C1 as stated: for every byte string, of any length, the checksummed frame
\* verifies, and the frame with any single bit flipped does not.
C1_AnyLengthVerifies ==
    /\ crcPhase = "framed" => verdict
    /\ crcPhase = "flipped" => ~verdict

\* C1 amended: the checksummed frame verifies exactly when data has at least 3
\* bytes (validate_rtu_frame rejects every frame shorter than 5 bytes), and the
\* frame with any single bit flipped never verifies.
C1_VerifiesFromThreeBytes ==
    /\ crcPhase = "framed" => (verdict <=> Len(data) >= 3)
    /\ crcPhase = "flipped" => ~verdict

\* a frame that verified, one bit flipped, rejected
C1_Witness ==
    /\ crcPhase = "flipped" /\ Len(data) >= 3 /\ ~verdict
    /\ \E i \in 1..Len(frame), k \in 0..7 :
           validate_rtu_frame([frame EXCEPT ![i] = Toggle(@, k)])

-----------------------------------------------------------------------------
(* SpecFind: a receive buffer assembled from stray bytes and frames *)

MaxSegs == 4

StrayBytes == {0, 3, 81}

FramePayloads == {<<>>, <<0, 1>>}

InitFind ==
    /\ buf = <<>> /\ nSegs = 0 /\ found = <<>> /\ findPhase = "recv"
    /\ CrcIdle /\ MainIdle /\ SaveIdle /\ fs = FsEmpty

\* a byte that is not part of a frame arrives
RecvByte(b) ==
    /\ findPhase = "recv" /\ nSegs < MaxSegs
    /\ buf' = Append(buf, b)
    /\ nSegs' = nSegs + 1
    /\ UNCHANGED <<found, findPhase, crcVars, mainVars, fs, saveVars>>

\* a frame arrives, intact or with its last checksum byte damaged
RecvFrame(payload, intact) ==
    /\ findPhase = "recv" /\ nSegs < MaxSegs
    /\ LET f == Response(payload)
       IN  buf' = buf \o (IF intact THEN f ELSE [f EXCEPT ![Len(f)] = Toggle(@, 0)])
    /\ nSegs' = nSegs + 1
    /\ UNCHANGED <<found, findPhase, crcVars, mainVars, fs, saveVars>>

\* the read ends one byte early
CutTail ==
    /\ findPhase = "recv" /\ buf # <<>>
    /\ buf' = SubSeq(buf, 1, Len(buf) - 1)
    /\ findPhase' = "cut"
    /\ UNCHANGED <<nSegs, found, crcVars, mainVars, fs, saveVars>>

\* frame = find_frame(buf, RESP_ADDR, RESP_FUNC)
Search ==
    /\ findPhase \in {"recv", "cut"}
    /\ found' = find_frame(buf, RESP_ADDR, RESP_FUNC)
    /\ findPhase' = "searched"
    /\ UNCHANGED <<buf, nSegs, crcVars, mainVars, fs, saveVars>>

NextFind ==
    \/ \E b \in StrayBytes : RecvByte(b)
    \/ \E p \in FramePayloads, intact \in BOOLEAN : RecvFrame(p, intact)
    \/ CutTail
    \/ Search

SpecFind == InitFind /\ [][NextFind]_vars

\* the offsets (1-based) at which the marker [addr, func] occurs in b
Markers(b) == {i \in 1..(Len(b) - 1) : b[i] = RESP_ADDR /\ b[i + 1] = RESP_FUNC}

Least(S) == CHOOSE x \in S : \A y \in S : x <= y

\* the slice of b at marker i carries a matching checksum and fits the buffer
FrameFitsAt(b, i) ==
    /\ Len(b) >= i + 2
    /\ Len(b) >= (i - 1) + 3 + b[i + 2] + 2
    /\ LET last == (i - 1) + 3 + b[i + 2] + 2
       IN  b[last - 1] + 256 * b[last] = compute_crc(SubSeq(b, i, last - 2))

SliceAt(b, i) == SubSeq(b, i, (i - 1) + 3 + b[i + 2] + 2)

\* C2: find_frame is decided by the first occurrence of the marker alone: it
\* returns the slice i .. i+3+n+2 exactly when the buffer holds it and its
\* checksum matches, and no frame otherwise (no marker, fewer than 5 bytes,
\* byte count beyond the buffer, first match failing although a later one
\* would pass).
C2_FirstMatchDecides ==
    findPhase = "searched" =>
        /\ (Markers(buf) = {} => found = <<>>)
        /\ (Len(buf) < 5 => found = <<>>)
        /\ Markers(buf) # {} =>
              LET i == Least(Markers(buf))
              IN  IF FrameFitsAt(buf, i)
                  THEN found = <<SliceAt(buf, i)>>
                  ELSE found = <<>>

\* the first match fails its checksum, a later marker starts a valid frame,
\* and no frame is returned
C2_Witness ==
    /\ findPhase = "searched" /\ found = <<>>
    /\ Markers(buf) # {}
    /\ LET i == Least(Markers(buf))
       IN  /\ Len(buf) >= i + 2
           /\ Len(buf) >= (i - 1) + 3 + buf[i + 2] + 2
           /\ \E j \in Markers(buf) : j > i /\ FrameFitsAt(buf, j)

-----------------------------------------------------------------------------
(* SpecSave: save_state statement by statement, a crash at any point,      *)
(* load_state after the crash                                              *)

MaxTotal == 2

TsSamples == {100, 101}

InitSave ==
    /\ fs = FsEmpty
    /\ save_pc = "idle" /\ save_args = <<>> /\ save_old = <<>> /\ loaded = <<>>
    /\ CrcIdle /\ FindIdle /\ MainIdle

\* save_state(path, energy_in_kwh, energy_out_kwh) is called; os.makedirs
SaveBegin(e_in, e_out, ts) ==
    /\ save_pc = "idle"
    /\ save_args' = <<StateRecord(e_in, e_out, ts)>>
    /\ save_old' = fs[STATE_PATH]
    /\ save_pc' = "started"
    /\ loaded' = <<>>
    /\ UNCHANGED <<fs, crcVars, findVars, mainVars>>

\* with open(tmp, "w") as f
SaveOpen ==
    /\ save_pc = "started"
    /\ fs' = FsOpenW(fs, STATE_PATH)
    /\ save_pc' = "opened"
    /\ UNCHANGED <<save_args, save_old, loaded, crcVars, findVars, mainVars>>

\* json.dump(..., f), and leaving the with block flushes and closes f
SaveDump ==
    /\ save_pc = "opened"
    /\ fs' = FsDumpClose(fs, STATE_PATH, save_args[1])
    /\ save_pc' = "closed"
    /\ UNCHANGED <<save_args, save_old, loaded, crcVars, findVars, mainVars>>

\* os.replace(tmp, path); save_state returns
SaveReplace ==
    /\ save_pc = "closed"
    /\ fs' = FsReplace(fs, STATE_PATH)
    /\ save_pc' = "idle"
    /\ UNCHANGED <<save_args, save_old, loaded, crcVars, findVars, mainVars>>

\* a statement of save_state raises: the exception leaves save_state, the
\* files stay as they are
SaveRaise ==
    /\ save_pc \in {"started", "opened", "closed"}
    /\ save_pc' = "idle"
    /\ UNCHANGED <<fs, save_args, save_old, loaded, crcVars, findVars, mainVars>>

\* the process dies inside save_state
Crash ==
    /\ save_pc \in {"started", "opened", "closed"}
    /\ save_pc' = "crashed"
    /\ UNCHANGED <<fs, save_args, save_old, loaded, crcVars, findVars, mainVars>>

\* the restarted process: load_state(args.persist_state)
LoadAfterCrash ==
    /\ save_pc = "crashed"
    /\ loaded' = <<load_state(fs, STATE_PATH)>>
    /\ save_pc' = "loaded"
    /\ UNCHANGED <<fs, save_args, save_old, crcVars, findVars, mainVars>>

\* the restarted process goes on to its next save
Resume ==
    /\ save_pc = "loaded"
    /\ save_pc' = "idle"
    /\ UNCHANGED <<fs, save_args, save_old, loaded, crcVars, findVars, mainVars>>

NextSave ==
    \/ \E e_in \in 0..MaxTotal, e_out \in 0..MaxTotal, ts \in TsSamples :
           SaveBegin(e_in, e_out, ts)
    \/ SaveOpen
    \/ SaveDump
    \/ SaveReplace
    \/ SaveRaise
    \/ Crash
    \/ LoadAfterCrash
    \/ Resume

SpecSave == InitSave /\ [][NextSave]_vars

OldTotals == IF save_old = <<>> THEN <<0, 0>>
             ELSE <<save_old[1].energy_in_kwh, save_old[1].energy_out_kwh>>

NewTotals == <<save_args[1].energy_in_kwh, save_args[1].energy_out_kwh>>

\* C8: at every point of a save, a crash included, the destination file holds
\* the complete previous record (or is absent as before) or the complete new
\* record, never partial content; load_state after a crash returns the old
\* totals or the new totals.
C8_DestinationOldOrNew ==
    /\ fs[STATE_PATH] # <<>> => fs[STATE_PATH][1].complete
    /\ save_pc \in {"started", "opened", "closed", "crashed", "loaded"} =>
           fs[STATE_PATH] \in {save_old, save_args}
    /\ save_pc = "loaded" => loaded[1] \in {OldTotals, NewTotals}

\* a crash with the temporary file fully written and not yet renamed, over an
\* earlier record with other totals: load_state returns the old totals
C8_Witness ==
    /\ save_pc = "loaded"
    /\ save_old # <<>> /\ OldTotals # NewTotals
    /\ fs[TmpPath(STATE_PATH)] = save_args
    /\ loaded[1] = OldTotals

-----------------------------------------------------------------------------
(* What the serial line can deliver *)

\* a 16-bit register image of the device: cells 1..16, temperatures 49..52,
\* pack voltage 57, current 58, SOC 59, remaining capacity 76, raw power 89,
\* MOS temperature 91
RegisterImage(n, v57, v58, v76) ==
    Eager([r \in 1..n |->
        CASE r \in 1..7   -> 3300
          [] r = 8        -> 2000
          [] r \in {49, 50, 52} -> 65
          [] r = 57       -> v57
          [] r = 58       -> v58
          [] r = 59       -> 805
          [] r = 76       -> v76
          [] r = 89       -> 120
          [] r = 91       -> 70
          [] OTHER        -> 0])

\* the registers as the payload bytes, big-endian
PayloadOf(regs) ==
    Eager([i \in 1..(2 * Len(regs)) |->
        IF i % 2 = 1 THEN regs[(i + 1) \div 2] \div 256 ELSE regs[i \div 2] % 256])

VoltageSamples == {252, 50}

CurrentSamples == {30040, 29921, 30000, 30001, 36000}

CapacitySamples == {500, 0}

Damaged(f) == [f EXCEPT ![Len(f)] = Toggle(@, 0)]

\* A read is named by what the device sent:
\*   "nothing"  no byte within the timeout
\*   "stray"    bytes that hold no marker pair
\*   "damaged"  a frame whose checksum does not match
\*   "odd"      a frame with a one-byte payload
\*   "frame"    n registers; "offset": the same after two stray bytes
Rx(kind, n, v, c, rc) == [kind |-> kind, n |-> n, v |-> v, c |-> c, rc |-> rc]

\* ser.read(512) for a read
Buffer(rx) ==
    CASE rx.kind = "nothing" -> <<>>
      [] rx.kind = "stray"   -> <<0, 81>>
      [] rx.kind = "damaged" ->
            Damaged(Response(PayloadOf(RegisterImage(rx.n, rx.v, rx.c, rx.rc))))
      [] rx.kind = "odd"     -> Response(<<7>>)
      [] rx.kind = "frame"   ->
            Response(PayloadOf(RegisterImage(rx.n, rx.v, rx.c, rx.rc)))
      [] rx.kind = "offset"  ->
            <<0, 81>> \o Response(PayloadOf(RegisterImage(rx.n, rx.v, rx.c, rx.rc)))

NoRx == Rx("nothing", 0, 0, 0, 0)

PoorRx == { NoRx, Rx("stray", 0, 0, 0, 0), Rx("damaged", 58, 252, 30040, 0),
            Rx("odd", 0, 0, 0, 0) }

ChargingRx == Rx("frame", 127, 252, 30040, 500)

DischargingRx == Rx("offset", 127, 252, 29921, 500)

WideRx ==
    PoorRx \cup {DischargingRx}
    \cup { Rx("frame", n, 252, 30040, 0) : n \in {56, 57, 58} }
    \cup { Rx("frame", 127, v, c, rc) :
              v \in VoltageSamples, c \in CurrentSamples, rc \in CapacitySamples }

LongRx == PoorRx \cup {ChargingRx, DischargingRx}

\* lines 299-311 and the derivation for every read, computed once:
\* buf = ser.read(512), frame = find_frame(buf, ...),
\* regs = decode_registers_from_frame(frame)
\* the derivation from a decoded register map
Decoded(dec) ==
    Bind({dec.regs}, LAMBDA regs :
        [empty  |-> FALSE,
         found  |-> TRUE,
         raised |-> dec.raised,
         regs   |-> regs,
         drv    |-> Derived(regs, DEFAULT_RESERVE_AH)])

\* find_frame and decode_registers_from_frame on a buffer
Receive(b) ==
    Bind({find_frame(b, RESP_ADDR, RESP_FUNC)}, LAMBDA f :
        IF f = <<>>
        THEN [empty |-> b = <<>>, found |-> FALSE, raised |-> FALSE,
              regs |-> <<>>, drv |-> Derived(<<>>, DEFAULT_RESERVE_AH)]
        ELSE Bind({decode_registers_from_frame(f[1])}, LAMBDA dec : Decoded(dec)))

Received ==
    Eager([rx \in WideRx \cup LongRx |->
              Bind({Buffer(rx)}, LAMBDA b : Receive(b))])

-----------------------------------------------------------------------------
(* main(): startup *)

MaxInterval == 1

MaxPersistEvery == 2

StartClock == 40

ShortHorizon == 6

LongHorizon == 21

PriorTotals == <<7200, 3600>>

InitialFs ==
    { FsEmpty,
      [FsEmpty EXCEPT ![STATE_PATH] = <<StateRecord(PriorTotals[1], PriorTotals[2], 7)>>] }

Init ==
    /\ pc = "connect"
    /\ persist_state \in BOOLEAN
    /\ persist_every \in 1..MaxPersistEvery
    /\ interval \in 1..MaxInterval
    /\ clock = StartClock
    /\ energy_in = 0 /\ energy_out = 0 /\ last_persist = 0
    /\ fs \in InitialFs
    /\ published = <<>> /\ cyc = NoCycle /\ hist = NoHist
    /\ CrcIdle /\ FindIdle /\ SaveIdle

\* ha.connect() (line 271), outside any try: an exception ends the process
Connect(ok) ==
    /\ pc = "connect"
    /\ IF ok THEN pc' = "discovery" /\ hist' = hist
       ELSE pc' = "crashed" /\ hist' = [hist EXCEPT !.crash = "mqtt_connect"]
    /\ UNCHANGED <<persist_state, persist_every, interval, clock, energy_in,
                   energy_out, last_persist, fs, published, cyc,
                   crcVars, findVars, saveVars>>

\* publish_discovery(ha, args.cell_count) (line 272), outside any try
PublishDiscovery(ok) ==
    /\ pc = "discovery"
    /\ IF ok THEN pc' = "load" /\ hist' = hist
       ELSE pc' = "crashed" /\ hist' = [hist EXCEPT !.crash = "discovery"]
    /\ UNCHANGED <<persist_state, persist_every, interval, clock, energy_in,
                   energy_out, last_persist, fs, published, cyc,
                   crcVars, findVars, saveVars>>

\* lines 274-279: the totals and last_persist
LoadTotals ==
    /\ pc = "load"
    /\ IF persist_state
       THEN /\ energy_in' = load_state(fs, STATE_PATH)[1]
            /\ energy_out' = load_state(fs, STATE_PATH)[2]
            /\ last_persist' = clock
            /\ hist' = [hist EXCEPT !.loads = @ + 1, !.start = clock]
       ELSE /\ energy_in' = 0 /\ energy_out' = 0 /\ last_persist' = 0
            /\ hist' = [hist EXCEPT !.start = clock]
    /\ pc' = "open"
    /\ UNCHANGED <<persist_state, persist_every, interval, clock, fs, published,
                   cyc, crcVars, findVars, saveVars>>

\* with serial.Serial(...) as ser (line 291), outside any try
OpenSerial(ok) ==
    /\ pc = "open"
    /\ IF ok THEN pc' = "loop" /\ hist' = hist
       ELSE pc' = "crashed" /\ hist' = [hist EXCEPT !.crash = "serial_open"]
    /\ UNCHANGED <<persist_state, persist_every, interval, clock, energy_in,
                   energy_out, last_persist, fs, published, cyc,
                   crcVars, findVars, saveVars>>

-----------------------------------------------------------------------------
(* main(): one iteration of the while True loop (lines 293-439)            *)
(*   rx       what ser.read(512) returns                                   *)
(*   ioFail   "none", or the serial call that raises ("write", "read")     *)
(*   pubFail  "none", or the topic whose ha.publish raises                 *)
(*   saveFail "none", or the step of save_state that raises                *)
(*   e        the ticks from t0 to the end of the work of the cycle        *)

IoFails == {"none", "write", "read"}

ElapsedChoices == {1, 6}

\* the cycle ends in the except clause or runs to the end: lines 437-439
ClockAfterWork(t0, e, itv) == t0 + e + SleepFor(itv, e)

\* the cycle ends in a continue: time.sleep(args.interval), lines 301, 308
ClockAfterContinue(t0, e, itv) == t0 + e + itv * TicksPerSec

\* a cycle that ends before anything is published
Skipped(kind, seen, wake) ==
    /\ cyc' = [seen EXCEPT !.kind = kind]
    /\ published' = <<>>
    /\ clock' = wake
    /\ UNCHANGED <<energy_in, energy_out, last_persist, fs, hist>>

\* lines 426-431 and the except clause of 433-434, after the publishes:
\* failed is TRUE when a publish raised, which skips the rest of the body
Persisted(obs, h, totals, now, failed, saveFail) ==
    IF failed
    THEN \* ha.publish raises: except clause, the rest is skipped
         /\ cyc' = [obs EXCEPT !.kind = "publish_error"]
         /\ hist' = h
         /\ UNCHANGED <<last_persist, fs>>
    ELSE IF ~(persist_state /\ PersistDue(now, last_persist, persist_every))
    THEN /\ cyc' = [obs EXCEPT !.kind = "ok"]
         /\ hist' = h
         /\ UNCHANGED <<last_persist, fs>>
    ELSE IF saveFail = "none"
    THEN \* save_state returns; last_persist = now
         /\ cyc' = [obs EXCEPT !.kind = "ok", !.save = "saved"]
         /\ fs' = save_state(fs, STATE_PATH, totals[1], totals[2],
                             now \div TicksPerSec)
         /\ last_persist' = now
         /\ hist' = [h EXCEPT !.prev_save = hist.last_save,
                              !.last_save = <<now>>,
                              !.pending = FALSE]
    ELSE \* save_state raises: except clause
         /\ cyc' = [obs EXCEPT !.kind = "save_error", !.save = "raised"]
         /\ fs' = save_state_raised(fs, STATE_PATH, saveFail)
         /\ hist' = [h EXCEPT !.pending = TRUE]
         /\ UNCHANGED last_persist

\* lines 313-431 for a decoded register map: the publishes up to the one that
\* raises (failAt, 0 for none), the accounting of lines 401-409 when the
\* publishes before it went through, the save
Processed(dec, seen, full, failAt, now, saveFail, wake) ==
    \E sent \in {IF failAt = 0 THEN full ELSE SubSeq(full, 1, failAt - 1)},
       accounted \in {dec.drv.power # <<>>
                      /\ (failAt = 0 \/ failAt > Len(dec.drv.before))} :
    \E totals \in {IF accounted
                   THEN TotalsAfter(dec.drv.power, energy_in, energy_out, interval)
                   ELSE <<energy_in, energy_out>>},
       obs \in {[seen EXCEPT !.decoded = TRUE,
                             !.vraw = RegGet(dec.regs, 57),
                             !.craw = RegGet(dec.regs, 58),
                             !.rcraw = RegGet(dec.regs, 76),
                             !.power = IF failAt = 0
                                          \/ failAt >= FirstPub(full, Topic("Power"), 1)
                                       THEN dec.drv.power ELSE <<>>,
                             !.accounted = accounted,
                             !.complete = (failAt = 0)]},
       h \in {[hist EXCEPT
                 !.sent_in = IF HasPub(sent, "EnergyIn")
                             THEN <<PubValue(sent, "EnergyIn")>> ELSE @,
                 !.sent_out = IF HasPub(sent, "EnergyOut")
                              THEN <<PubValue(sent, "EnergyOut")>> ELSE @]} :
        /\ published' = sent
        /\ energy_in' = totals[1]
        /\ energy_out' = totals[2]
        /\ clock' = wake
        /\ Persisted(obs, h, totals, now, failAt # 0, saveFail)

\* one pass of the while True body, lines 293-439
PollCycle(rx, ioFail, pubFail, saveFail, e, horizon) ==
    /\ pc = "loop"
    /\ clock < StartClock + horizon
    /\ \E dec \in {Received[rx]}, now \in {clock + e},
          seen \in {[NoCycle EXCEPT !.t0 = clock, !.now = clock + e]} :
       IF ioFail # "none"
       THEN \* reset_input_buffer / write / read raises: except clause
            Skipped("io_error", seen, ClockAfterWork(clock, e, interval))
       ELSE IF dec.empty
       THEN \* if not buf: sleep, continue
            Skipped("timeout", seen, ClockAfterContinue(clock, e, interval))
       ELSE IF ~dec.found
       THEN \* if not frame: warning, sleep, continue
            Skipped("no_frame", seen, ClockAfterContinue(clock, e, interval))
       ELSE IF dec.raised
       THEN \* struct.error in decode_registers_from_frame: except clause
            Skipped("decode_error", seen, ClockAfterWork(clock, e, interval))
       ELSE \E full \in {dec.drv.before
                         \o PubsAfter(dec.drv, energy_in, energy_out, interval)} :
            \E failAt \in {IF pubFail = "none" THEN 0
                           ELSE FirstPub(full, Topic(pubFail), 1)} :
                Processed(dec, seen, full, failAt, now, saveFail,
                          ClockAfterWork(clock, e, interval))
    /\ UNCHANGED <<pc, persist_state, persist_every, interval,
                   crcVars, findVars, saveVars>>

WidePubFails == {"none", "Cell1Voltage", "Power", "EnergyIn", "BatteryZeroTime"}

LongPubFails == {"none", "Power", "EnergyOut"}

Startup ==
    \/ \E ok \in BOOLEAN : Connect(ok)
    \/ \E ok \in BOOLEAN : PublishDiscovery(ok)
    \/ LoadTotals
    \/ \E ok \in BOOLEAN : OpenSerial(ok)

\* the inputs of a cycle: a serial call raises, or a read with at most one
\* of a publish and a save_state raising
Next ==
    \/ Startup
    \/ \E ioFail \in IoFails \ {"none"}, e \in ElapsedChoices :
           PollCycle(NoRx, ioFail, "none", "none", e, ShortHorizon)
    \/ \E rx \in WideRx, pubFail \in WidePubFails, e \in ElapsedChoices :
           PollCycle(rx, "none", pubFail, "none", e, ShortHorizon)
    \/ \E rx \in WideRx, saveFail \in SaveSteps, e \in ElapsedChoices :
           PollCycle(rx, "none", "none", saveFail, e, ShortHorizon)

Spec == Init /\ [][Next]_vars

NextLong ==
    \/ Startup
    \/ \E ioFail \in IoFails \ {"none"}, e \in ElapsedChoices :
           PollCycle(NoRx, ioFail, "none", "none", e, LongHorizon)
    \/ \E rx \in LongRx, pubFail \in LongPubFails, e \in ElapsedChoices :
           PollCycle(rx, "none", pubFail, "none", e, LongHorizon)
    \/ \E rx \in LongRx, saveFail \in {"dump"}, e \in ElapsedChoices :
           PollCycle(rx, "none", "none", saveFail, e, LongHorizon)

SpecLong == Init /\ [][NextLong]_vars

-----------------------------------------------------------------------------
(* Properties of the poll loop *)

\* a step that is one pass of the loop body
CycleStep == pc = "loop" /\ pc' = "loop" /\ clock' # clock

\* register 57 is present with 10 < voltage < 100 and register 58 is present
\* with abs(current) < 500
InputsInWindow(c) ==
    /\ c.vraw # <<>> /\ VoltageInWindow(c.vraw[1])
    /\ c.craw # <<>> /\ CurrentInWindow(c.craw[1] - 30000)

\* C3: in every poll cycle that decodes a frame, when register 57 or 58 is
\* missing or outside its validity window, no Power is published and the
\* energy totals do not change.
C3_OutOfWindowIsAbsent ==
    [][ (CycleStep /\ cyc'.decoded /\ ~InputsInWindow(cyc'))
            => /\ ~HasPub(published', "Power")
               /\ energy_in' = energy_in
               /\ energy_out' = energy_out ]_vars

\* C4: in each poll cycle where power is defined, a positive power adds
\* abs(power) * interval to energy_in and leaves energy_out, a negative power
\* adds it to energy_out and leaves energy_in; with power zero or undefined, or
\* without a valid frame, both totals are unchanged.
C4_AccumulatesByPower ==
    [][ CycleStep =>
            IF cyc'.power # <<>> /\ cyc'.power[1] > 0
            THEN /\ energy_in' = energy_in + Abs(cyc'.power[1]) * interval
                 /\ energy_out' = energy_out
            ELSE IF cyc'.power # <<>> /\ cyc'.power[1] < 0
            THEN /\ energy_out' = energy_out + Abs(cyc'.power[1]) * interval
                 /\ energy_in' = energy_in
            ELSE /\ energy_in' = energy_in
                 /\ energy_out' = energy_out ]_vars

\* C6: in a cycle whose publishes all go through, TimeToGo is published
\* exactly when registers 76 and 57 are present, power is defined and
\* abs(power) > 10, and its value is the quotient rounded to the nearest second.
C6_TimeToGoIsRounded ==
    (pc = "loop" /\ cyc.decoded /\ cyc.complete) =>
        LET defined == /\ cyc.rcraw # <<>> /\ cyc.power # <<>> /\ cyc.vraw # <<>>
                       /\ Abs(cyc.power[1]) > 10
        IN  /\ HasPub(published, "TimeToGo") <=> defined
            /\ defined =>
                   PubValue(published, "TimeToGo")
                       = TimeToGo_rounded(cyc.rcraw[1], cyc.vraw[1], cyc.power[1],
                                          DEFAULT_RESERVE_AH)

\* C9: no failure ends the process: a failed broker connection or serial open
\* is retried, not fatal, and a cycle that fails leaves the loop running.
C9_NoFailureEndsPolling ==
    /\ pc # "crashed"
    /\ cyc.kind \in {"io_error", "decode_error", "publish_error", "save_error"}
           => pc = "loop"

\* C5: once the loop runs, neither total ever decreases, whatever the cycle
\* does, and each EnergyIn and EnergyOut value published is at least the one
\* published before it.
C5_TotalsNeverDecrease ==
    [][ pc = "loop" =>
            /\ energy_in' >= energy_in
            /\ energy_out' >= energy_out
            /\ (hist.sent_in # <<>> /\ hist'.sent_in # <<>>)
                   => hist'.sent_in[1] >= hist.sent_in[1]
            /\ (hist.sent_out # <<>> /\ hist'.sent_out # <<>>)
                   => hist'.sent_out[1] >= hist.sent_out[1] ]_vars

\* both totals have grown since startup and been published, and the last
\* cycle ended in a publish error after its accounting
C5_Witness ==
    /\ pc = "loop"
    /\ fs[STATE_PATH] = <<>>
    /\ energy_in > 0 /\ energy_out > 0
    /\ hist.sent_in # <<>> /\ hist.sent_in[1] > 0
    /\ hist.sent_out # <<>> /\ hist.sent_out[1] > 0
    /\ cyc.kind = "publish_error" /\ cyc.accounted

\* C7: with persistence enabled, two successive successful saves are at
\* least persist_every seconds apart, the first is at least persist_every
\* seconds after startup, and a cycle makes at most one save attempt; with
\* persistence disabled, load_state and save_state are never called.
C7_SavesRateLimited ==
    /\ cyc.save \in {"none", "saved", "raised"}
    /\ persist_state =>
           /\ (hist.last_save # <<>> /\ hist.prev_save # <<>>) =>
                  hist.last_save[1] - hist.prev_save[1] >= persist_every * TicksPerSec
           /\ hist.last_save # <<>> =>
                  hist.last_save[1] - hist.start >= persist_every * TicksPerSec
    /\ (pc # "off" /\ ~persist_state) =>
           /\ hist.loads = 0
           /\ hist.last_save = <<>> /\ ~hist.pending /\ cyc.save = "none"
           /\ fs \in InitialFs

\* a second successful save of the process
C7_Witness ==
    /\ persist_state
    /\ hist.prev_save # <<>>
    /\ cyc.save = "saved" /\ hist.last_save = <<cyc.now>>

\* C10: a cycle in which save_state fails has published all its metrics and
\* leaves last_persist alone and the totals not lower, and from then on every
\* cycle that decodes a valid frame attempts the save, until one succeeds.
C10_FailedSaveIsRetried ==
    [][ CycleStep =>
            /\ cyc'.save = "raised" =>
                   /\ cyc'.complete
                   /\ last_persist' = last_persist
                   /\ energy_in' >= energy_in /\ energy_out' >= energy_out
            /\ (hist.pending /\ cyc'.decoded) => cyc'.save # "none" ]_vars

====
